---- MODULE Spec2Model ----
(***************************************************************************)
(* Model of the Azure Event Hub demonstration scripts:                     *)
(*   data_explorer_demo.py  (EventHubDataExplorer, main)                   *)
(*   demo.py                (EventHubDemo, main)                           *)
(*   receive_events.py      (on_event, receive_events)                     *)
(*   send_events.py         (EventHubSender, main)                         *)
(*   quick_test.py          (send_test_event)                              *)
(*                                                                         *)
(* One run of the model is one run of one script; `script` says which.     *)
(* The transport (the Event Hub SDK client) is the environment: it         *)
(* delivers events partition by partition, completes or fails checkpoint   *)
(* and send calls, and may fail the receive call.  Every script runs on    *)
(* one asyncio event loop, so a step of the model is the code between two  *)
(* suspension points (await), and a cancellation of the main task (what    *)
(* asyncio.run turns a user interrupt into) is delivered at the await the  *)
(* task is suspended in.                                                   *)
(***************************************************************************)
EXTENDS Integers, Sequences, FiniteSets, TLC

\* ------------------------------------------------------------------ bounds
MaxEvents == 3       \* events the transport delivers in one session

\* ------------------------------------------------------------- the domain
Partitions == {"0", "1"}
NoType == "<absent>"                 \* the event carries no event_type property
\* what an event carries: its event_type property, and a body that is a
\* JSON document or text that is not JSON
EventKinds ==
    {[event_type |-> "login", body |-> "json"],
     [event_type |-> NoType, body |-> "json"],
     [event_type |-> "login", body |-> "text"]}
NoneTime == -1                       \* Python None in a timestamp field

\* offset of the event with sequence number s: monotonic, not contiguous
OffsetOf(s) == 2 * s

\* The events the transport can hold.
TransportEvents ==
    {[partition_id |-> p, sequence_number |-> s,
      event_type |-> k.event_type, body |-> k.body] :
        p \in Partitions, s \in 1..MaxEvents, k \in EventKinds}

VARIABLES
    script,            \* which script runs
    connection_string, \* os.getenv("EVENT_HUB_CONNECTION_STRING") is set
    event_hub_name,    \* os.getenv("EVENT_HUB_NAME") is set
    pc,                \* position of the script's main coroutine
    consumer,          \* the consumer client: none, open, closed
    producer,          \* the producer client: none, constructed, open, closed
    timer,             \* the _stop_after_delay task: none, sleeping, cancelled
    cb,                \* per partition: the on_event invocation: idle, awaiting
                       \* (suspended in update_checkpoint), failed (the last one
                       \* ended with update_checkpoint's exception), cancelled
    lastSeq,           \* per partition: last sequence number the transport delivered
    delivered,         \* events handed to on_event, in delivery order
    ckptCalls,         \* per partition: arguments of update_checkpoint, in call order
    ckptView,          \* per explorer call of update_checkpoint: the buffer and
                       \* the counts as they were when the call was made
    events_buffer,     \* EventHubDataExplorer.events_buffer
    stats,             \* EventHubDataExplorer.stats
    now,               \* the clock read by datetime.utcnow()
    collectExit,       \* how control left the receive function: none, returned, raised
    session,           \* Idle, Running, Cancelled, Failed
    summary,           \* display_summary: none, shown, raised
    shown,             \* what display_recent_events printed last
    exported,          \* export_to_json wrote its file
    export_file,       \* the document export_to_json wrote
    limit,             \* the limit display_recent_events is called with
    events_received,   \* receive_demo_events: its events_received list
    displayed,         \* receive_events.py: the bodies on_event printed
    use_managed_identity, \* EventHubSender.use_managed_identity
    num_events,        \* events the send loop is to send
    sendIdx,           \* index of the send loop
    handed,            \* indices of the events handed to the transport, in order
    failed,            \* indices of the events whose send raised
    usedClosed         \* create_batch was called on a producer closed before

vars == <<script, connection_string, event_hub_name, pc, consumer, producer,
          timer, cb, lastSeq, delivered, ckptCalls, ckptView, events_buffer,
          stats, now,
          collectExit, session, summary, shown, exported, export_file,
          limit, events_received, displayed, use_managed_identity, num_events,
          sendIdx, handed, failed, usedClosed>>

\* the variables of each part of the state
envVars == <<script, connection_string, event_hub_name>>
recvVars == <<cb, lastSeq, delivered, ckptCalls, ckptView>>
explorerVars == <<events_buffer, stats>>
reportVars == <<summary, shown, exported, export_file>>
sendVars == <<producer, use_managed_identity, num_events, sendIdx, handed,
              failed, usedClosed>>

\* ------------------------------------------------------------ dictionaries
EmptyDict == [k \in {} |-> 0]

\* dict.get(k, default)
DictGet(d, k, default) == IF k \in DOMAIN d THEN d[k] ELSE default

\* d[k] = v
DictSet(d, k, v) == [x \in (DOMAIN d) \cup {k} |-> IF x = k THEN v ELSE d[x]]

\* d[k] = 1: the counter is overwritten, not incremented
CountReset(d, k) == DictSet(d, k, 1)

\* d[k] = d.get(k, 0) + 1
CountInc(d, k) == DictSet(d, k, DictGet(d, k, 0) + 1)

RECURSIVE SumOver(_, _)
SumOver(d, keys) ==
    IF keys = {} THEN 0
    ELSE LET k == CHOOSE x \in keys : TRUE
         IN d[k] + SumOver(d, keys \ {k})

\* sum(d.values())
DictSum(d) == SumOver(d, DOMAIN d)

\* ------------------------------------------------------------- event data
\* dict(event.properties): the pairs of the property mapping
PropertiesOf(e) ==
    IF e.event_type = NoType THEN {} ELSE {<<"event_type", e.event_type>>}

\* the type looked up under a key the events do not carry
EventTypeIgnored(props) == "unknown"

\* properties.get("event_type", "unknown")
EventTypeOf(props) ==
    IF \E kv \in props : kv[1] = "event_type"
    THEN (CHOOSE kv \in props : kv[1] = "event_type")[2]
    ELSE "unknown"

\* event.body_as_json() returns (TRUE) or raises (FALSE)
BodyIsJson(b) == b = "json"

\* _parse_event_body: body_as_json(), and body_as_str() when that raises
ParseEventBody(e) ==
    IF BodyIsJson(e.body)
    THEN [kind |-> "structured", value |-> e.body]
    ELSE [kind |-> "raw", value |-> e.body]

\* the event_data dictionary on_event builds
EventData(e) ==
    [partition_id |-> e.partition_id,
     offset |-> OffsetOf(e.sequence_number),
     sequence_number |-> e.sequence_number,
     enqueued_time |-> e.sequence_number,
     properties |-> PropertiesOf(e),
     body |-> ParseEventBody(e)]

\* events_buffer.insert(0, event_data)
BufferPrepend(buf, rec) == <<rec>> \o buf

\* events_buffer.append(event_data)
BufferAppend(buf, rec) == Append(buf, rec)

\* the pair update_checkpoint stores for an event
CheckpointOf(e) == <<OffsetOf(e.sequence_number), e.sequence_number>>

\* --------------------------------------------------------------- initial
InitStats ==
    [total_events |-> 0, events_by_type |-> EmptyDict,
     events_by_partition |-> EmptyDict,
     start_time |-> NoneTime, end_time |-> NoneTime]

NotShown == <<[none |-> TRUE]>>


\* ------------------------------------------------------ the recent events
Min(a, b) == IF a < b THEN a ELSE b
Max(a, b) == IF a > b THEN a ELSE b

\* reversed(s)
Reverse(s) == [i \in 1..Len(s) |-> s[Len(s) + 1 - i]]

\* Python's s[start:], start of either sign: a negative start counts from
\* the end, and -0 is 0
PySliceFrom(s, start) ==
    LET n == Len(s)
        first == IF start < 0 THEN Max(n + start, 0) ELSE Min(start, n)
    IN SubSeq(s, first + 1, n)

\* display_recent_events: the events it prints, in the order it prints them
RecentEvents(buf, lim) ==
    Reverse(IF Len(buf) > lim THEN PySliceFrom(buf, -lim) ELSE buf)

\* the limit main passes to display_recent_events
MainRecentLimit == 5
MaxLimit == MaxEvents + 1

\* display_summary raises: a None timestamp in the subtraction (TypeError),
\* or a division by zero seconds or by zero events (ZeroDivisionError)
DisplaySummaryRaises(st) ==
    \/ st.start_time = NoneTime
    \/ st.end_time = NoneTime
    \/ st.total_events > 0 /\ st.end_time - st.start_time = 0
    \/ st.total_events = 0 /\ DOMAIN st.events_by_type # {}
    \/ st.total_events = 0 /\ DOMAIN st.events_by_partition # {}

\* ------------------------------------------------------------ the export
\* no file has been written
NoFile == [written |-> FALSE]

\* datetime.isoformat() + "Z" if the timestamp is set, else None
IsoFormat(t) == IF t = NoneTime THEN [null |-> TRUE] ELSE [iso |-> t]

\* export_to_json with the events in the order display_recent_events shows
\* them, the most recent first
ExportDataRecentFirst(st, buf, t) ==
    [export_info |->
        [exported_at |-> IsoFormat(t),
         total_events |-> Len(buf),
         collection_period |->
            [start |-> IsoFormat(st.start_time), end |-> IsoFormat(st.end_time)]],
     statistics |-> st,
     events |-> Reverse(buf)]

\* export_to_json: the export_data dictionary
ExportData(st, buf, t) ==
    [export_info |->
        [exported_at |-> IsoFormat(t),
         total_events |-> Len(buf),
         collection_period |->
            [start |-> IsoFormat(st.start_time), end |-> IsoFormat(st.end_time)]],
     statistics |-> st,
     events |-> buf]

\* json.dump of a datetime or None: None is written as null, a datetime is
\* not serializable and goes through default=str
JsonTime(t) == IF t = NoneTime THEN [null |-> TRUE] ELSE [str |-> t]

\* json.dump of a counter dictionary: an object, its keys written as strings
\* (the type names and the partition ids are strings already)
JsonObject(d) == [k \in DOMAIN d |-> d[k]]

\* json.dump(export_data, default=str): the document written
JsonDump(data) ==
    [export_info |-> data.export_info,
     statistics |->
        [total_events |-> data.statistics.total_events,
         events_by_type |-> JsonObject(data.statistics.events_by_type),
         events_by_partition |-> JsonObject(data.statistics.events_by_partition),
         start_time |-> JsonTime(data.statistics.start_time),
         end_time |-> JsonTime(data.statistics.end_time)],
     events |->
        [i \in 1..Len(data.events) |->
            [data.events[i] EXCEPT !.enqueued_time = JsonTime(@)]]]

\* json.load of a timestamp written by json.dump: null is None again, a
\* datetime comes back as the string str() made of it
JsonLoadTime(j) == IF "null" \in DOMAIN j THEN [none |-> TRUE] ELSE j

\* json.load of the document: objects are dictionaries again, numbers are
\* numbers, the timestamps stay strings
JsonLoad(doc) ==
    [export_info |-> doc.export_info,
     statistics |->
        [doc.statistics EXCEPT !.start_time = JsonLoadTime(@),
                               !.end_time = JsonLoadTime(@)],
     events |->
        [i \in 1..Len(doc.events) |->
            [doc.events[i] EXCEPT !.enqueued_time = JsonLoadTime(@)]]]

\* --------------------------------------------------------------- initial
Scripts == {"explorer", "demo", "receiver", "sender", "quick", "recent"}

\* sequences over S of length at most n
RECURSIVE SeqsUpTo(_, _)
SeqsUpTo(S, n) ==
    IF n = 0 THEN {<<>>}
    ELSE LET shorter == SeqsUpTo(S, n - 1)
         IN shorter \cup {Append(s, x) : s \in {t \in shorter : Len(t) = n - 1}, x \in S}

\* the events of partition p in a sequence of events or of records
OfPartition(s, p) == SelectSeq(s, LAMBDA r : r.partition_id = p)

\* the sequence numbers of s never decrease
SeqOrdered(s) ==
    \A i, j \in 1..Len(s) : i < j => s[i].sequence_number <= s[j].sequence_number

\* The buffers collect_events can leave behind, for the calls of
\* display_recent_events on a buffer and a limit of the caller's choice.
SampleEvents == {e \in TransportEvents : e.event_type = "login" /\ e.body = "json"}
SampleBuffers ==
    {[i \in 1..Len(d) |-> EventData(d[i])] :
        d \in {t \in SeqsUpTo(SampleEvents, MaxEvents) :
                  \A p \in Partitions : SeqOrdered(OfPartition(t, p))}}

Init ==
    /\ script \in Scripts
    /\ connection_string \in BOOLEAN
    /\ event_hub_name \in BOOLEAN
    /\ pc = "main"
    /\ consumer = "none"
    /\ producer = "none"
    /\ timer = "none"
    /\ cb = [p \in Partitions |-> "idle"]
    /\ lastSeq = [p \in Partitions |-> 0]
    /\ delivered = <<>>
    /\ ckptCalls = [p \in Partitions |-> <<>>]
    /\ ckptView = <<>>
    /\ IF script = "recent"
       THEN /\ events_buffer \in SampleBuffers
            /\ limit \in 0..MaxLimit
            /\ connection_string /\ event_hub_name
       ELSE /\ events_buffer = <<>>
            /\ limit = MainRecentLimit
    /\ stats = InitStats
    /\ now = 0
    /\ collectExit = "none"
    /\ session = "Idle"
    /\ summary = "none"
    /\ shown = NotShown
    /\ exported = FALSE
    /\ export_file = NoFile
    /\ events_received = <<>>
    /\ displayed = <<>>
    /\ use_managed_identity = FALSE
    /\ num_events = 0
    /\ sendIdx = 0
    /\ handed = <<>>
    /\ failed = {}
    /\ usedClosed = FALSE

\* ------------------------------------------------- data_explorer_demo.py
\* main: the configuration check
ExplorerConfigCheck ==
    /\ script = "explorer" /\ pc = "main"
    /\ pc' = IF ~connection_string \/ ~event_hub_name THEN "done" ELSE "collect"
    /\ UNCHANGED <<envVars, consumer, timer, recvVars, explorerVars, now,
                   collectExit, session, reportVars, limit, events_received,
                   displayed, sendVars>>

\* collect_events up to the await of consumer.receive
CollectStart ==
    /\ script = "explorer" /\ pc = "collect"
    /\ consumer' = "open"
    /\ stats' = [stats EXCEPT !.start_time = now]
    /\ timer' = "sleeping"
    /\ session' = "Running"
    /\ pc' = "receiving"
    /\ UNCHANGED <<envVars, recvVars, events_buffer, now, collectExit,
                   reportVars, limit, events_received, displayed, sendVars>>

\* The transport hands partition p its next event: sequence numbers of one
\* partition never decrease (the next one, or a redelivery of the last), and
\* one partition's callback is awaited before its next event is handed over.
CanDeliver(e) ==
    /\ pc = "receiving"
    /\ Len(delivered) < MaxEvents
    /\ cb[e.partition_id] \in {"idle", "failed"}
    /\ e.sequence_number \in {lastSeq[e.partition_id], lastSeq[e.partition_id] + 1}

\* the transport's bookkeeping of a delivery; it takes time
Deliver(e) ==
    /\ lastSeq' = [lastSeq EXCEPT ![e.partition_id] = e.sequence_number]
    /\ delivered' = Append(delivered, e)
    /\ now' = now + 1

\* await partition_context.update_checkpoint(event): the call is made, and
\* the callback is suspended in it
CallUpdateCheckpoint(e) ==
    /\ ckptCalls' = [ckptCalls EXCEPT
           ![e.partition_id] = Append(@, CheckpointOf(e))]
    /\ cb' = [cb EXCEPT ![e.partition_id] = "awaiting"]

\* on_event with update_checkpoint awaited first, before the event is
\* buffered and counted
CheckpointBeforeAccounting(before, after) == before

\* on_event: line 67 comes after the append and the three counts, so the
\* call of update_checkpoint is made in the state they leave
AccountedAtCall(before, after) == after

\* what the call of update_checkpoint for e finds of e in the explorer
CheckpointView(seen, e) ==
    [buffered |-> Len(seen.buffer),
     total |-> seen.stats.total_events,
     of_type |-> DictGet(seen.stats.events_by_type,
                         EventTypeOf(PropertiesOf(e)), 0),
     of_partition |-> DictGet(seen.stats.events_by_partition, e.partition_id, 0)]

\* on_event of collect_events, up to its await of update_checkpoint
ExplorerOnEvent(e) ==
    /\ script = "explorer"
    /\ CanDeliver(e)
    /\ LET rec == EventData(e)
           event_type == EventTypeOf(rec.properties)
       IN /\ events_buffer' = BufferAppend(events_buffer, rec)
          /\ stats' = [stats EXCEPT
                 !.total_events = @ + 1,
                 !.events_by_type = CountInc(@, event_type),
                 !.events_by_partition = CountInc(@, rec.partition_id)]
    /\ CallUpdateCheckpoint(e)
    /\ LET seen == AccountedAtCall([buffer |-> events_buffer, stats |-> stats],
                                   [buffer |-> events_buffer', stats |-> stats'])
       IN ckptView' = Append(ckptView, CheckpointView(seen, e))
    /\ Deliver(e)
    /\ UNCHANGED <<envVars, pc, consumer, timer, collectExit, session,
                   reportVars, limit, events_received, displayed, sendVars>>

\* update_checkpoint returns: on_event ends
CheckpointReturn(p) ==
    /\ pc = "receiving" /\ cb[p] = "awaiting"
    /\ cb' = [cb EXCEPT ![p] = "idle"]
    /\ UNCHANGED <<envVars, pc, consumer, timer, lastSeq, delivered, ckptCalls,
                   ckptView, explorerVars, now, collectExit, session, reportVars, limit,
                   events_received, displayed, sendVars>>

\* update_checkpoint raises: on_event ends with the exception (demo.py's
\* prints it), nothing the callback did is undone, the receive goes on
CheckpointFail(p) ==
    /\ pc = "receiving" /\ cb[p] = "awaiting"
    /\ cb' = [cb EXCEPT ![p] = "failed"]
    /\ UNCHANGED <<envVars, pc, consumer, timer, lastSeq, delivered, ckptCalls,
                   ckptView, explorerVars, now, collectExit, session, reportVars, limit,
                   events_received, displayed, sendVars>>

\* _stop_after_delay: the sleep ends and the task raises CancelledError in
\* itself; the task ends cancelled, and no other task awaits it or is
\* cancelled by it
TimerElapse ==
    /\ timer = "sleeping"
    /\ timer' = "cancelled"
    /\ UNCHANGED <<envVars, pc, consumer, recvVars, explorerVars, now,
                   collectExit, session, reportVars, limit, events_received,
                   displayed, sendVars>>

\* the receive ends: the consumer is closed by its async with, the callbacks
\* suspended in update_checkpoint are cancelled with it
StopReceive ==
    /\ consumer' = "closed"
    /\ cb' = [p \in Partitions |-> IF cb[p] = "awaiting" THEN "cancelled" ELSE cb[p]]

\* collect_events without its except clause: the CancelledError leaves it,
\* and main's except Exception does not catch it
CollectCancelledPropagates ==
    /\ collectExit' = "raised"
    /\ pc' = "done"
    /\ UNCHANGED stats

\* collect_events, CancelledError out of the async with: except
\* asyncio.CancelledError: pass, then end_time is set and the call returns
CollectCancelled ==
    /\ stats' = [stats EXCEPT !.end_time = now]
    /\ collectExit' = "returned"
    /\ pc' = "summary"

\* The main task is cancelled while it awaits consumer.receive: a user
\* interrupt reaches the coroutine as the CancelledError that asyncio.run
\* delivers at this await, not as a KeyboardInterrupt raised in the middle
\* of a synchronous stretch of code.
ExplorerCancel ==
    /\ script = "explorer" /\ pc = "receiving"
    /\ StopReceive
    /\ CollectCancelled
    /\ session' = "Cancelled"
    /\ UNCHANGED <<envVars, timer, lastSeq, delivered, ckptCalls, ckptView,
                   events_buffer,
                   now, reportVars, limit, events_received, displayed, sendVars>>

\* consumer.receive raises a transport error: it is not a CancelledError, so
\* it leaves collect_events before end_time is set, and main's except
\* Exception prints it
ExplorerReceiveFails ==
    /\ script = "explorer" /\ pc = "receiving"
    /\ StopReceive
    /\ collectExit' = "raised"
    /\ session' = "Failed"
    /\ pc' = "done"
    /\ UNCHANGED <<envVars, timer, lastSeq, delivered, ckptCalls, ckptView,
                   explorerVars,
                   now, reportVars, limit, events_received, displayed, sendVars>>

\* main: explorer.display_summary(); what it raises main's except prints
DisplaySummary ==
    /\ script = "explorer" /\ pc = "summary"
    /\ IF DisplaySummaryRaises(stats)
       THEN summary' = "raised" /\ pc' = "done"
       ELSE summary' = "shown" /\ pc' = "recent"
    /\ UNCHANGED <<envVars, consumer, timer, recvVars, explorerVars, now,
                   collectExit, session, shown, exported, export_file, limit,
                   events_received, displayed, sendVars>>

\* display_recent_events(limit): main's call, or a call on a buffer and a
\* limit of the caller's choice
DisplayRecentEvents ==
    /\ \/ script = "explorer" /\ pc = "recent" /\ pc' = "export"
       \/ script = "recent" /\ pc = "main" /\ pc' = pc
    /\ shown' = RecentEvents(events_buffer, limit)
    /\ UNCHANGED <<envVars, consumer, timer, recvVars, explorerVars, now,
                   collectExit, session, summary, exported, export_file, limit,
                   events_received, displayed, sendVars>>

\* main: explorer.export_to_json()
ExportToJson ==
    /\ script = "explorer" /\ pc = "export"
    /\ exported' = TRUE
    /\ export_file' = JsonDump(ExportData(stats, events_buffer, now))
    /\ pc' = "done"
    /\ UNCHANGED <<envVars, consumer, timer, recvVars, explorerVars, now,
                   collectExit, session, summary, shown, limit,
                   events_received, displayed, sendVars>>

\* ---------------------------------------------------------------- demo.py
\* the events send_demo_events sends
DemoEventCount == 3

\* main: the configuration check (EventHubDemo.__init__ only prints)
DemoConfigCheck ==
    /\ script = "demo" /\ pc = "main"
    /\ pc' = IF ~connection_string \/ ~event_hub_name THEN "done" ELSE "demo_send"
    /\ UNCHANGED <<envVars, consumer, timer, recvVars, explorerVars, now,
                   collectExit, session, reportVars, limit, events_received,
                   displayed, sendVars>>

\* send_demo_events up to its loop: the producer is made and entered
DemoSendStart ==
    /\ script = "demo" /\ pc = "demo_send"
    /\ producer' = "open"
    /\ num_events' = DemoEventCount
    /\ sendIdx' = 0
    /\ pc' = "demo_loop"
    /\ UNCHANGED <<envVars, consumer, timer, recvVars, explorerVars, now,
                   collectExit, session, reportVars, limit, events_received,
                   displayed, use_managed_identity, handed, failed, usedClosed>>

\* one round of the loop of send_demo_events: create_batch and send_batch
\* return (ok), or one raises: the exception leaves the loop and the async
\* with, the except clause prints it and send_demo_events returns
DemoSendEvent(ok) ==
    /\ script = "demo" /\ pc = "demo_loop" /\ sendIdx < num_events
    /\ handed' = Append(handed, sendIdx)
    /\ IF ok
       THEN /\ sendIdx' = sendIdx + 1
            /\ UNCHANGED <<failed, producer, pc>>
       ELSE /\ failed' = failed \cup {sendIdx}
            /\ producer' = "closed"
            /\ pc' = "demo_receive"
            /\ UNCHANGED sendIdx
    /\ UNCHANGED <<envVars, consumer, timer, recvVars, explorerVars, now,
                   collectExit, session, reportVars, limit, events_received,
                   displayed, use_managed_identity, num_events, usedClosed>>

\* the loop of send_demo_events is over: the async with closes the producer
DemoSendDone ==
    /\ script = "demo" /\ pc = "demo_loop" /\ sendIdx = num_events
    /\ producer' = "closed"
    /\ pc' = "demo_receive"
    /\ UNCHANGED <<envVars, consumer, timer, recvVars, explorerVars, now,
                   collectExit, session, reportVars, limit, events_received,
                   displayed, use_managed_identity, num_events, sendIdx,
                   handed, failed, usedClosed>>

\* receive_demo_events up to the await of consumer.receive
DemoReceiveStart ==
    /\ script = "demo" /\ pc = "demo_receive"
    /\ timer' = "sleeping"
    /\ consumer' = "open"
    /\ session' = "Running"
    /\ pc' = "receiving"
    /\ UNCHANGED <<envVars, recvVars, explorerVars, now, collectExit,
                   reportVars, limit, events_received, displayed, sendVars>>

\* the entry on_event of receive_demo_events appends
DemoEventData(e) ==
    [partition |-> e.partition_id,
     offset |-> OffsetOf(e.sequence_number),
     properties |-> PropertiesOf(e),
     body |-> [kind |-> "structured", value |-> e.body]]

\* on_event of receive_demo_events: body_as_json() is inside the try, and
\* when it raises the except clause prints the error and the callback ends
DemoOnEvent(e) ==
    /\ script = "demo"
    /\ CanDeliver(e)
    /\ IF BodyIsJson(e.body)
       THEN /\ events_received' = Append(events_received, DemoEventData(e))
            /\ CallUpdateCheckpoint(e)
       ELSE UNCHANGED <<events_received, ckptCalls, cb>>
    /\ Deliver(e)
    /\ UNCHANGED <<ckptView, envVars, pc, consumer, timer, explorerVars, collectExit,
                   session, reportVars, limit, displayed, sendVars>>

\* The main task is cancelled in receive_demo_events: except
\* asyncio.CancelledError: pass, the list is returned, main prints its summary
DemoCancel ==
    /\ script = "demo" /\ pc = "receiving"
    /\ StopReceive
    /\ collectExit' = "returned"
    /\ session' = "Cancelled"
    /\ pc' = "done"
    /\ UNCHANGED <<envVars, timer, lastSeq, delivered, ckptCalls, ckptView,
                   explorerVars,
                   now, reportVars, limit, events_received, displayed, sendVars>>

\* consumer.receive raises a transport error: it leaves receive_demo_events
\* and main's except Exception prints it
DemoReceiveFails ==
    /\ script = "demo" /\ pc = "receiving"
    /\ StopReceive
    /\ collectExit' = "raised"
    /\ session' = "Failed"
    /\ pc' = "done"
    /\ UNCHANGED <<envVars, timer, lastSeq, delivered, ckptCalls, ckptView,
                   explorerVars,
                   now, reportVars, limit, events_received, displayed, sendVars>>

\* ------------------------------------------------------ receive_events.py
\* receive_events: the configuration check
ReceiverConfigCheck ==
    /\ script = "receiver" /\ pc = "main"
    /\ pc' = IF ~connection_string \/ ~event_hub_name THEN "done" ELSE "receive"
    /\ UNCHANGED <<envVars, consumer, timer, recvVars, explorerVars, now,
                   collectExit, session, reportVars, limit, events_received,
                   displayed, sendVars>>

\* receive_events up to the await of consumer.receive; it starts no timer
ReceiverStart ==
    /\ script = "receiver" /\ pc = "receive"
    /\ consumer' = "open"
    /\ session' = "Running"
    /\ pc' = "receiving"
    /\ UNCHANGED <<envVars, timer, recvVars, explorerVars, now, collectExit,
                   reportVars, limit, events_received, displayed, sendVars>>

\* on_event of receive_events.py: prints the body as JSON, or as text when
\* body_as_json() raises, then awaits update_checkpoint
ReceiverOnEvent(e) ==
    /\ script = "receiver"
    /\ CanDeliver(e)
    /\ displayed' = Append(displayed, ParseEventBody(e))
    /\ CallUpdateCheckpoint(e)
    /\ Deliver(e)
    /\ UNCHANGED <<ckptView, envVars, pc, consumer, timer, explorerVars, collectExit,
                   session, reportVars, limit, events_received, sendVars>>

\* The main task is cancelled in receive_events: CancelledError is neither a
\* KeyboardInterrupt nor an Exception, so it leaves receive_events
ReceiverCancel ==
    /\ script = "receiver" /\ pc = "receiving"
    /\ StopReceive
    /\ collectExit' = "raised"
    /\ session' = "Cancelled"
    /\ pc' = "done"
    /\ UNCHANGED <<envVars, timer, lastSeq, delivered, ckptCalls, ckptView,
                   explorerVars,
                   now, reportVars, limit, events_received, displayed, sendVars>>

\* consumer.receive raises a transport error: except Exception prints it
ReceiverReceiveFails ==
    /\ script = "receiver" /\ pc = "receiving"
    /\ StopReceive
    /\ collectExit' = "returned"
    /\ session' = "Failed"
    /\ pc' = "done"
    /\ UNCHANGED <<envVars, timer, lastSeq, delivered, ckptCalls, ckptView,
                   explorerVars,
                   now, reportVars, limit, events_received, displayed, sendVars>>

\* --------------------------------------------------------- send_events.py
\* EventHubSender.__init__: use_managed_identity
UseManagedIdentity(conn) == ~conn

\* main: the sender is made, then the configuration check, which looks at
\* the connection string and at use_managed_identity only
SenderConfigCheck ==
    /\ script = "sender" /\ pc = "main"
    /\ use_managed_identity' = UseManagedIdentity(connection_string)
    /\ pc' = IF ~connection_string /\ ~use_managed_identity'
             THEN "done" ELSE "menu"
    /\ UNCHANGED <<envVars, consumer, timer, recvVars, explorerVars, now,
                   collectExit, session, reportVars, limit, events_received,
                   displayed, producer, num_events, sendIdx, handed, failed,
                   usedClosed>>

\* main, choice 1 (n events) or 3 (one event): send_batch_events(n) up to
\* its loop; the producer is made with the credential or with the
\* connection string, and is not entered here
SendBatchStart(n) ==
    /\ script = "sender" /\ pc = "menu"
    /\ producer' = "constructed"
    /\ num_events' = n
    /\ sendIdx' = 0
    /\ pc' = "send_loop"
    /\ UNCHANGED <<envVars, consumer, timer, recvVars, explorerVars, now,
                   collectExit, session, reportVars, limit, events_received,
                   displayed, use_managed_identity, handed, failed, usedClosed>>

\* one round of the loop of send_batch_events: send_single_event enters the
\* producer, calls create_batch and send_batch, and leaves the producer
\* closed; what they raise its except clause prints, and the loop goes on
SendSingleEvent(ok) ==
    /\ script = "sender" /\ pc = "send_loop" /\ sendIdx < num_events
    /\ handed' = Append(handed, sendIdx)
    /\ failed' = IF ok THEN failed ELSE failed \cup {sendIdx}
    /\ usedClosed' = (usedClosed \/ producer = "closed")
    /\ producer' = "closed"
    /\ sendIdx' = sendIdx + 1
    /\ UNCHANGED <<envVars, pc, consumer, timer, recvVars, explorerVars, now,
                   collectExit, session, reportVars, limit, events_received,
                   displayed, use_managed_identity, num_events>>

\* the loop of send_batch_events is over
SendBatchDone ==
    /\ script = "sender" /\ pc = "send_loop" /\ sendIdx = num_events
    /\ pc' = "done"
    /\ UNCHANGED <<envVars, consumer, timer, recvVars, explorerVars, now,
                   collectExit, session, reportVars, limit, events_received,
                   displayed, sendVars>>

\* ---------------------------------------------------------- quick_test.py
\* send_test_event: the configuration check
QuickConfigCheck ==
    /\ script = "quick" /\ pc = "main"
    /\ pc' = IF ~connection_string \/ ~event_hub_name THEN "done" ELSE "quick_send"
    /\ UNCHANGED <<envVars, consumer, timer, recvVars, explorerVars, now,
                   collectExit, session, reportVars, limit, events_received,
                   displayed, sendVars>>

\* send_test_event: the producer is made and entered, the one event is sent
\* or the send raises, and the async with closes the producer
QuickSend(ok) ==
    /\ script = "quick" /\ pc = "quick_send"
    /\ producer' = "closed"
    /\ num_events' = 1
    /\ handed' = Append(handed, 0)
    /\ failed' = IF ok THEN failed ELSE failed \cup {0}
    /\ pc' = "done"
    /\ UNCHANGED <<envVars, consumer, timer, recvVars, explorerVars, now,
                   collectExit, session, reportVars, limit, events_received,
                   displayed, use_managed_identity, sendIdx, usedClosed>>

Next ==
    \/ ExplorerConfigCheck
    \/ CollectStart
    \/ \E e \in TransportEvents : ExplorerOnEvent(e)
    \/ \E p \in Partitions : CheckpointReturn(p)
    \/ \E p \in Partitions : CheckpointFail(p)
    \/ TimerElapse
    \/ ExplorerCancel
    \/ ExplorerReceiveFails
    \/ DisplaySummary
    \/ DisplayRecentEvents
    \/ ExportToJson
    \/ DemoConfigCheck
    \/ DemoSendStart
    \/ \E ok \in BOOLEAN : DemoSendEvent(ok)
    \/ DemoSendDone
    \/ DemoReceiveStart
    \/ \E e \in TransportEvents : DemoOnEvent(e)
    \/ DemoCancel
    \/ DemoReceiveFails
    \/ ReceiverConfigCheck
    \/ ReceiverStart
    \/ \E e \in TransportEvents : ReceiverOnEvent(e)
    \/ ReceiverCancel
    \/ ReceiverReceiveFails
    \/ SenderConfigCheck
    \/ \E n \in 0..MaxEvents : SendBatchStart(n)
    \/ \E ok \in BOOLEAN : SendSingleEvent(ok)
    \/ SendBatchDone
    \/ QuickConfigCheck
    \/ \E ok \in BOOLEAN : QuickSend(ok)

Spec == Init /\ [][Next]_vars

\* The event loop runs every task that is ready: the timer task once its
\* sleep is over, and the synchronous steps of main.  What the transport and
\* the user do (deliver, fail, cancel) is not forced.
FairSpec ==
    /\ Spec
    /\ WF_vars(TimerElapse)
    /\ WF_vars(ExplorerConfigCheck)
    /\ WF_vars(CollectStart)
    /\ WF_vars(DisplaySummary)
    /\ WF_vars(ExportToJson)
    /\ WF_vars(DemoConfigCheck)
    /\ WF_vars(DemoSendStart)
    /\ WF_vars(DemoSendDone)
    /\ WF_vars(DemoReceiveStart)

\* ================================================================ claims
NonDecreasing(s) ==
    \A i, j \in 1..Len(s) : i < j => s[i][1] <= s[j][1] /\ s[i][2] <= s[j][2]

CountWhere(s, Test(_)) == Len(SelectSeq(s, Test))

EventRecordFields ==
    {"partition_id", "offset", "sequence_number", "enqueued_time",
     "properties", "body"}

\* C1: once the timer task started with _stop_after_delay has elapsed, the
\* receive wait is eventually stopped, whether or not an event arrives.
C1_TimerStopsReceive == (timer = "cancelled") ~> (pc # "receiving")

\* C2: whenever control has left collect_events (timeout, cancellation or
\* transport error), stats["end_time"] is not None.
C2_EndTimeSetOnExit ==
    (script = "explorer" /\ collectExit # "none") => stats.end_time # NoneTime

\* C3: for every partition the (offset, sequence number) pairs passed to
\* update_checkpoint never decrease, whatever the interleaving of the
\* partitions, and the partition's events are in the buffer in that order.
C3_CheckpointsNeverRegress ==
    script = "explorer" =>
        \A p \in Partitions :
            LET inBuffer == OfPartition(events_buffer, p)
            IN /\ NonDecreasing(ckptCalls[p])
               /\ Len(inBuffer) = Len(ckptCalls[p])
               /\ \A i \in 1..Len(inBuffer) :
                      <<inBuffer[i].offset, inBuffer[i].sequence_number>>
                          = ckptCalls[p][i]

\* C3's case: the two partitions interleave, and one of them has had two
\* checkpoint calls with different sequence numbers.
C3_Witness ==
    /\ script = "explorer"
    /\ Len(events_buffer) = 3
    /\ events_buffer[1].partition_id = "0"
    /\ events_buffer[2].partition_id = "1"
    /\ events_buffer[3].partition_id = "0"
    /\ Len(ckptCalls["0"]) = 2
    /\ ckptCalls["0"][1][2] < ckptCalls["0"][2][2]

\* C4: once an event has been processed, the counts by type and the counts
\* by partition each sum to total_events, and the events without an
\* event_type property are the ones counted under "unknown".
C4_CountsSumToTotal ==
    (script = "explorer" /\ stats.total_events >= 1) =>
        /\ DictSum(stats.events_by_type) = stats.total_events
        /\ DictSum(stats.events_by_partition) = stats.total_events
        /\ DictGet(stats.events_by_type, "unknown", 0)
              = CountWhere(delivered, LAMBDA e : e.event_type = NoType)

\* C4's case: several events, typed and untyped, on both partitions.
C4_Witness ==
    /\ script = "explorer"
    /\ stats.total_events = 3
    /\ DictGet(stats.events_by_type, "unknown", 0) = 1
    /\ DictGet(stats.events_by_type, "login", 0) = 2
    /\ DOMAIN stats.events_by_partition = Partitions

\* C5: after a cancellation that follows k deliveries, the buffer holds
\* those k events in delivery order, each a complete record, its length and
\* total_events are k, and collect_events has returned normally.
C5_CancelKeepsBuffer ==
    (script = "explorer" /\ session = "Cancelled") =>
        /\ collectExit = "returned"
        /\ Len(events_buffer) = Len(delivered)
        /\ stats.total_events = Len(delivered)
        /\ \A i \in 1..Len(events_buffer) :
              /\ DOMAIN events_buffer[i] = EventRecordFields
              /\ events_buffer[i].partition_id = delivered[i].partition_id
              /\ events_buffer[i].sequence_number = delivered[i].sequence_number
              /\ events_buffer[i].offset = OffsetOf(delivered[i].sequence_number)
              /\ events_buffer[i].body.value = delivered[i].body

\* C5's case: cancelled after two events, the second one's checkpoint call
\* still pending.
C5_Witness ==
    /\ script = "explorer"
    /\ session = "Cancelled"
    /\ Len(delivered) = 2
    /\ cb[delivered[2].partition_id] = "cancelled"

\* what display_recent_events is to show: the min(limit, len) most recently
\* appended events, the most recent first
ShowsMostRecent ==
    shown # NotShown =>
        /\ Len(shown) = Min(limit, Len(events_buffer))
        /\ \A i \in 1..Len(shown) :
              shown[i] = events_buffer[Len(events_buffer) + 1 - i]

\* C6: display_recent_events shows exactly min(limit, len(buffer)) events,
\* the most recent first, for every limit (0 included), and a repeated call
\* shows the same and leaves the buffer as it is.
C6_RecentShowsMinLimit ==
    /\ []ShowsMostRecent
    /\ [][shown # NotShown =>
            shown' = shown /\ events_buffer' = events_buffer]_vars

\* C7: in a send_batch_events or send_demo_events run, once the send of one
\* event has failed no later event is handed to the transport, and no event
\* is handed to it twice.
C7_FailedSendAbortsBatch ==
    script \in {"sender", "demo"} =>
        /\ \A k \in 1..Len(handed) : \A f \in failed : handed[k] <= f
        /\ \A i, j \in 1..Len(handed) : i < j => handed[i] # handed[j]

\* the events delivered so far whose body is not JSON
MalformedDelivered == CountWhere(delivered, LAMBDA e : ~BodyIsJson(e.body))

\* the entries of a list whose body is the raw text
RawBodies(s) == CountWhere(s, LAMBDA r : r.kind = "raw")

\* C8: in all three receive callbacks an event whose body is not JSON is
\* recorded with its raw text body (and counted, in the explorer) and is
\* checkpointed like any other, and the session goes on.
C8_MalformedBodyRecorded ==
    /\ script \in {"explorer", "demo", "receiver"} =>
          Len(ckptCalls["0"]) + Len(ckptCalls["1"]) = Len(delivered)
    /\ script = "explorer" =>
          /\ RawBodies([i \in 1..Len(events_buffer) |-> events_buffer[i].body])
                = MalformedDelivered
          /\ stats.total_events = Len(delivered)
    /\ script = "demo" =>
          RawBodies([i \in 1..Len(events_received) |-> events_received[i].body])
              = MalformedDelivered
    /\ script = "receiver" => RawBodies(displayed) = MalformedDelivered

\* C9: with the connection string or the event hub name missing, no script
\* constructs a producer or a consumer or makes a send or receive call.
C9_MissingConfigFailsFast ==
    (~connection_string \/ ~event_hub_name) =>
        /\ consumer = "none"
        /\ producer = "none"
        /\ handed = <<>>
        /\ delivered = <<>>

\* what was read back agrees with the statistics and the buffer in the
\* counts and in the events' order
SameCounts(back, st, buf) ==
    /\ back.statistics.total_events = st.total_events
    /\ back.statistics.events_by_type = st.events_by_type
    /\ back.statistics.events_by_partition = st.events_by_partition
    /\ back.export_info.total_events = st.total_events
    /\ Len(back.events) = Len(buf)
    /\ \A i \in 1..Len(buf) :
          /\ back.events[i].partition_id = buf[i].partition_id
          /\ back.events[i].sequence_number = buf[i].sequence_number
          /\ back.events[i].offset = buf[i].offset
          /\ back.events[i].properties = buf[i].properties
          /\ back.events[i].body = buf[i].body

Prefix(s, n) == SubSeq(s, 1, n)

\* when update_checkpoint was called for the i-th event, that event was
\* already in the buffer and in the three counts
AccountedBeforeCheckpoint ==
    script = "explorer" =>
        /\ Len(ckptView) = Len(delivered)
        /\ \A i \in 1..Len(ckptView) :
              /\ ckptView[i].buffered = i
              /\ ckptView[i].total = i
              /\ ckptView[i].of_type =
                    CountWhere(Prefix(delivered, i),
                               LAMBDA e : e.event_type = delivered[i].event_type)
              /\ ckptView[i].of_partition =
                    CountWhere(Prefix(delivered, i),
                               LAMBDA e : e.partition_id = delivered[i].partition_id)

\* C12: update_checkpoint(e) is called only after e is in events_buffer and
\* counted in total_events, events_by_type and events_by_partition, and a
\* failing update_checkpoint leaves the buffer and the counts as they are.
C12_AccountedThenCheckpointed ==
    /\ []AccountedBeforeCheckpoint
    /\ [][\A p \in Partitions :
            (script = "explorer" /\ cb[p] = "awaiting" /\ cb'[p] = "failed") =>
                /\ events_buffer' = events_buffer
                /\ stats' = stats]_vars

\* C12's case: update_checkpoint has failed for the second event of a
\* partition, and both of its events are still buffered and counted.
C12_Witness ==
    /\ script = "explorer"
    /\ cb["0"] = "failed"
    /\ Len(ckptCalls["0"]) = 2
    /\ Len(OfPartition(events_buffer, "0")) = 2
    /\ DictGet(stats.events_by_partition, "0", 0) = 2

\* C13: a client is open while it is used; every producer or consumer a
\* script has constructed is closed once the operation that constructed it
\* has returned (send_batch_events with zero events included); and no
\* create_batch or send_batch call is made on a producer an earlier
\* send_single_event has closed.
C13_ClientClosedOnExit ==
    /\ (pc = "receiving") => consumer = "open"
    /\ (pc = "demo_loop") => producer = "open"
    /\ (pc = "done") =>
          /\ consumer \in {"none", "closed"}
          /\ producer \in {"none", "closed"}
    /\ ~usedClosed

\* the type on_event is to count a transport event under
TypeKeyOf(e) == IF e.event_type = NoType THEN "unknown" ELSE e.event_type

TypeKeys == {TypeKeyOf(e) : e \in TransportEvents}

\* C14: with the callbacks of the partitions interleaved at their await of
\* update_checkpoint, after n invocations have passed their accounting
\* total_events is n, the buffer holds n records, and every per-type and
\* per-partition counter is the number of those n events of that type or
\* partition; no other counter exists.
C14_NoLostUpdate ==
    (script = "explorer") =>
        /\ stats.total_events = Len(delivered)
        /\ Len(events_buffer) = Len(delivered)
        /\ \A t \in TypeKeys :
              DictGet(stats.events_by_type, t, 0)
                 = CountWhere(delivered, LAMBDA e : TypeKeyOf(e) = t)
        /\ \A p \in Partitions :
              DictGet(stats.events_by_partition, p, 0)
                 = CountWhere(delivered, LAMBDA e : e.partition_id = p)
        /\ DOMAIN stats.events_by_type \subseteq TypeKeys
        /\ DOMAIN stats.events_by_partition \subseteq Partitions

\* C14's case: the callbacks of both partitions are suspended in
\* update_checkpoint at once, three events of both types accounted.
C14_Witness ==
    /\ script = "explorer"
    /\ \A p \in Partitions : cb[p] = "awaiting"
    /\ stats.total_events = 3
    /\ DOMAIN stats.events_by_type = {"login", "unknown"}

\* C10: however the session ended, display_summary does not raise on the
\* state collect_events left, and main has shown or exported the
\* statistics by the time it ends.
C10_StatsShownAfterSession ==
    (script = "explorer" /\ collectExit # "none") =>
        /\ ~DisplaySummaryRaises(stats)
        /\ pc = "done" => (summary = "shown" \/ exported)
====
